---- MODULE Spec2Model ----
(***************************************************************************)
(* apeople: the sequential index counter (internal/parser/id_counter.go),  *)
(* the record codec's save (SaveContactFile) and the commands that drive   *)
(* them (new, list/update/log/bump/delete, the TUI's new-contact form).    *)
(*                                                                         *)
(* A "worker" is one thread of control (a CLI command's goroutine, or one  *)
(* tea.Cmd goroutine of the TUI); procOf maps it to its operating-system   *)
(* process.  Process globals (globalCounter, globalCounterOnce) are        *)
(* indexed by process, files by directory.  Every file-system call is one  *)
(* step, so other workers and crashes interleave between any two of them.  *)
(*                                                                         *)
(* Further parts, each with its own variables and specification: the       *)
(* status of one record, the interaction log of one body, the tags of one  *)
(* record, the codec of one record file, and the create, bump and update   *)
(* commands on the records of one directory.                               *)
(***************************************************************************)
EXTENDS Integers, Sequences, FiniteSets, TLC

\* ---------------------------------------------------------------- bounds
MaxId == 5
MaxNames == 3
MaxInit == 2
MaxNow == 184
MaxSession == 6
MaxLen == 4
MaxAppends == 2
MaxArgs == 2
MaxMoved == 1
MaxTitle == 2
MaxBody == 3
MaxSaves == 2
MaxClock == 7
HalfDaysPerDay == 2

Workers == {"w1", "w2"}
Procs == {"p1", "p2"}
Dirs == {"d1", "d2"}
Names == 1..MaxNames
InitNames == 1..MaxInit
\* index values a record may already hold when the model starts
InitIdx == {0, 1, 3}

VARIABLES
    counterFile,   \* [Dirs -> file]   <dir>/.apeople-counter.json
    tmpFile,       \* [Dirs -> file]   <dir>/.apeople-counter.json.tmp
    recs,          \* [Dirs -> [Names -> record file]]  <dir>/*__contact.md
    nextName,      \* [Dirs -> Nat]    next unused record file name
    cfgDir,        \* [Procs -> Dirs]  cfg.ContactsDirectory of the process
    procOf,        \* [Workers -> Procs]
    stay,          \* [Procs -> BOOLEAN]  the process takes further commands (the
                   \*   TUI) or ends with its command (a CLI invocation)
    once,          \* [Procs -> {"new","running","done"}]  globalCounterOnce
    gc,            \* [Procs -> counter object]            globalCounter
    mu,            \* [Procs -> BOOLEAN]                   globalCounter.mu held
    pc,            \* [Workers -> control point]
    cmd,           \* [Workers -> command being run]
    ctr,           \* [Workers -> "none" | "nil" | "ptr"]  local `counter`
    id,            \* [Workers -> Nat]   local `id` (NextID's result)
    lc,            \* [Workers -> Nat]   NextIndexID of the counter being created
    sctx,          \* [Workers -> "none" | "init" | "next"] who called save()
    fd,            \* [Workers -> "none" | "tmp" | "ctr" | "gone"] open temp file
    loaded,        \* [Workers -> [Names -> -1..MaxId]]  the `contacts` slice
    cur,           \* [Workers -> Names \cup {0}]  record being assigned / saved
    sv,            \* [Workers -> Nat]   IndexID of the record being saved
    handed,        \* [Dirs -> [1..MaxId -> 0..2]] history: times NextID returned v
    log,           \* [Procs -> Seq(Nat)] history: NextID results of this process
    boot,          \* [Procs -> record]  history: what loadOrCreateCounter found
    assigned,      \* [Dirs -> [Names -> Nat]] history: first non-zero index in the file
    contact,       \* the record whose status is computed (model.Contact fields)
    now,           \* the wall clock, in half days
    res,           \* the status computed from `contact` at `now`, or NoRes
    content,       \* the body of a record (Contact.Content), a sequence of symbols
    content0,      \* history: the body before any entry was appended
    before,        \* history: the body before the latest append
    entries,       \* history: the entries appended, oldest first
    tags,          \* the tag list of a record as last saved (Contact.Tags)
    lastOp,        \* history: the latest operation on the tags and its argument
    fileBytes,     \* the bytes of one record file, a sequence of symbols
    parsed,        \* what ParseContactFile made of fileBytes, or NotParsed
    parsed0,       \* history: the record the first parse of the file gave
    saves,         \* history: the number of times the file was saved
    store,         \* the record files of one directory, as the records they hold
    nextIndexID,   \* the directory's counter: NextIndexID
    clock,         \* the wall clock of the commands on `store`, in half days
    lastCmd        \* history: the latest command on `store`, its target and result

\* the counter, the files and the commands that use them
corevars == <<counterFile, tmpFile, recs, nextName, cfgDir, procOf, stay, once, gc, mu,
              pc, cmd, ctr, id, lc, sctx, fd, loaded, cur, sv, handed, log, boot,
              assigned>>

\* one record's status
statusvars == <<contact, now, res>>

\* one record's body
bodyvars == <<content, content0, before, entries>>

\* one record's tags
tagvars == <<tags, lastOp>>

\* what the counter's commands never touch
auxvars == <<statusvars, bodyvars, tagvars, fileBytes, parsed, parsed0, saves,
             store, nextIndexID, clock, lastCmd>>

\* what the status commands never touch
nostatus == <<corevars, bodyvars, tagvars, fileBytes, parsed, parsed0, saves,
              store, nextIndexID, clock, lastCmd>>

\* what appending to a body never touches
nobody == <<corevars, statusvars, tagvars, fileBytes, parsed, parsed0, saves,
              store, nextIndexID, clock, lastCmd>>

\* what the tag operations never touch
notags == <<corevars, statusvars, bodyvars, fileBytes, parsed, parsed0, saves,
              store, nextIndexID, clock, lastCmd>>

\* what the codec never touches
nocodec == <<corevars, statusvars, bodyvars, tagvars, store, nextIndexID, clock, lastCmd>>

\* what the commands on `store` never touch
nostore == <<corevars, statusvars, bodyvars, tagvars, fileBytes, parsed, parsed0, saves>>

vars == <<corevars, auxvars>>

filevars == <<counterFile, tmpFile, recs, nextName>>
histvars == <<handed, log, boot, assigned>>

\* ------------------------------------------------------------ file values
NoCounter == [st |-> "none", next |-> 0]
PartialCounter == [st |-> "partial", next |-> 0]
CounterVal(n) == [st |-> "ok", next |-> n]

NoRec == [st |-> "none", idx |-> 0]
PartialRec == [st |-> "partial", idx |-> 0]
Rec(i) == [st |-> "ok", idx |-> i]

NilCounter == [nil |-> TRUE, next |-> 0, dir |-> "d1"]
Counter(n, d) == [nil |-> FALSE, next |-> n, dir |-> d]

NoBoot == [st |-> "unloaded", seen |-> {}, empty |-> FALSE, start |-> 0]

DirOf(w) == cfgDir[procOf[w]]
WorkersOf(p) == {w \in Workers : procOf[w] = p}

Max(S) == IF S = {} THEN 0 ELSE CHOOSE m \in S : \A x \in S : x <= m

\* ParseContactFile succeeds on a complete file only
Parseable(r) == r.st = "ok"

\* findMaxIndexID as it would be if it kept the index of the last file it parsed
RECURSIVE MaxFromLast(_, _, _)
MaxFromLast(files, n, maxID) ==
    IF n > MaxNames THEN maxID
    ELSE IF ~Parseable(files[n]) THEN MaxFromLast(files, n + 1, maxID)
    ELSE MaxFromLast(files, n + 1, files[n].idx)

\* findMaxIndexID: the loop over the globbed files, in name order
RECURSIVE MaxFrom(_, _, _)
MaxFrom(files, n, maxID) ==
    IF n > MaxNames THEN maxID
    ELSE IF ~Parseable(files[n]) THEN MaxFrom(files, n + 1, maxID)
    ELSE IF files[n].idx > maxID THEN MaxFrom(files, n + 1, files[n].idx)
    ELSE MaxFrom(files, n + 1, maxID)

FindMaxIndexID(d) == MaxFrom(recs[d], 1, 0)

\* save() as it would be if it wrote the counter file in place
TempFileInPlace(w) == "ctr"

\* save(): tempFile := c.filePath + ".tmp", the file WriteFile writes and
\* Rename moves over the counter file ("tmp" is the sibling, "ctr" the counter file)
TempFile(w) == "tmp"

\* save() as it would be if NextID persisted the value it hands out
SaveDataStale(w) == IF sctx[w] = "init" THEN lc[w] ELSE id[w]

\* the bytes save() marshals: c.CounterData.NextIndexID when save() is entered
SaveData(w) == IF sctx[w] = "init" THEN lc[w] ELSE gc[procOf[w]].next

\* FindContacts: every parseable record of the directory, -1 for the others
Snapshot(d) == [n \in Names |-> IF Parseable(recs[d][n]) THEN recs[d][n].idx ELSE -1]
NotLoaded == [n \in Names |-> -1]

\* AssignIndexIDs' loop as it would be without its `IndexID == 0` test
NextZeroAny(ld, from) ==
    LET Z == {n \in Names : n >= from /\ ld[n] >= 0}
    IN IF Z = {} THEN 0 ELSE CHOOSE n \in Z : \A m \in Z : n <= m

\* AssignIndexIDs' loop: the first contact at or after `from` whose IndexID is 0
NextZero(ld, from) ==
    LET Z == {n \in Names : n >= from /\ ld[n] = 0}
    IN IF Z = {} THEN 0 ELSE CHOOSE n \in Z : \A m \in Z : n <= m

\* where the caller of GetIDCounter goes with a nil error
AfterGet(w) ==
    IF cmd[w] = "new" THEN "nid"
    ELSE IF NextZero(loaded[w], 1) = 0 THEN "post" ELSE "nid"

\* ------------------------------------------------------------- control
\* the worker's command is over: its locals are gone
Done(w) ==
    /\ pc' = [pc EXCEPT ![w] = IF stay[procOf[w]] THEN "idle" ELSE "off"]
    /\ cmd' = [cmd EXCEPT ![w] = "none"]
    /\ ctr' = [ctr EXCEPT ![w] = "none"]
    /\ id' = [id EXCEPT ![w] = 0]
    /\ lc' = [lc EXCEPT ![w] = 0]
    /\ sctx' = [sctx EXCEPT ![w] = "none"]
    /\ loaded' = [loaded EXCEPT ![w] = NotLoaded]
    /\ cur' = [cur EXCEPT ![w] = 0]
    /\ sv' = [sv EXCEPT ![w] = 0]

\* the process is gone (exit, crash or panic): its globals and its workers'
\* locals are lost, the files stay as they are; the next command is a new process
Restart(p) ==
    LET W == WorkersOf(p)
        Rst(f, v) == [w \in Workers |-> IF w \in W THEN v ELSE f[w]]
    IN /\ pc' = Rst(pc, "idle")
       /\ cmd' = Rst(cmd, "none")
       /\ ctr' = Rst(ctr, "none")
       /\ id' = Rst(id, 0)
       /\ lc' = Rst(lc, 0)
       /\ sctx' = Rst(sctx, "none")
       /\ fd' = Rst(fd, "none")
       /\ loaded' = Rst(loaded, NotLoaded)
       /\ cur' = Rst(cur, 0)
       /\ sv' = Rst(sv, 0)
       /\ once' = [once EXCEPT ![p] = "new"]
       /\ gc' = [gc EXCEPT ![p] = NilCounter]
       /\ mu' = [mu EXCEPT ![p] = FALSE]
       /\ log' = [log EXCEPT ![p] = <<>>]
       /\ boot' = [boot EXCEPT ![p] = NoBoot]
       /\ UNCHANGED <<auxvars, cfgDir, procOf, stay, handed, assigned>>

\* GetIDCounter returned (counter, nil) to its caller, newCommand or AssignIndexIDs
GetReturned(w, c) ==
    /\ ctr' = [ctr EXCEPT ![w] = c]
    /\ pc' = [pc EXCEPT ![w] = AfterGet(w)]
    /\ cur' = [cur EXCEPT ![w] =
                 IF cmd[w] = "new" THEN cur[w] ELSE NextZero(loaded[w], 1)]
    /\ lc' = [lc EXCEPT ![w] = 0]
    /\ sctx' = [sctx EXCEPT ![w] = "none"]
    /\ UNCHANGED <<cmd, id, loaded, sv>>

\* ------------------------------------------------ GetIDCounter / NextID
\* GetIDCounter: globalCounterOnce.Do(...); return globalCounter, err.
\* A caller that finds the Once running waits for it (the step is not enabled).
GetIDCounter(w) ==
    LET p == procOf[w] IN
    /\ pc[w] = "gic"
    /\ \/ /\ once[p] = "new"
          /\ once' = [once EXCEPT ![p] = "running"]
          /\ pc' = [pc EXCEPT ![w] = "loc_read"]
          /\ UNCHANGED <<ctr, cur, lc, sctx, cmd, id, loaded, sv>>
       \/ /\ once[p] = "done"
          /\ GetReturned(w, IF gc[p].nil THEN "nil" ELSE "ptr")
          /\ UNCHANGED once
    /\ UNCHANGED <<filevars, histvars, auxvars, cfgDir, procOf, stay, gc, mu, fd>>

\* loadOrCreateCounter: os.ReadFile(counterFile) and json.Unmarshal
LocRead(w) ==
    LET p == procOf[w]
        d == DirOf(w)
    IN
    /\ pc[w] = "loc_read"
    /\ \/ /\ counterFile[d].st = "none"          \* os.IsNotExist(err)
          /\ pc' = [pc EXCEPT ![w] = "loc_scan"]
          /\ UNCHANGED <<once, gc, boot, ctr, cur, lc, sctx, cmd, id, loaded, sv>>
       \/ /\ counterFile[d].st = "ok"
          /\ gc' = [gc EXCEPT ![p] = Counter(counterFile[d].next, d)]
          /\ once' = [once EXCEPT ![p] = "done"]
          /\ boot' = [boot EXCEPT ![p] = [NoBoot EXCEPT !.st = "loaded",
                                                         !.start = counterFile[d].next]]
          /\ GetReturned(w, "ptr")
       \/ /\ counterFile[d].st # "none"          \* read error or unparseable JSON
          /\ once' = [once EXCEPT ![p] = "done"]
          /\ boot' = [boot EXCEPT ![p] = [NoBoot EXCEPT !.st = "failed"]]
          /\ Done(w)
          /\ UNCHANGED gc
    /\ UNCHANGED <<filevars, handed, log, assigned, auxvars, cfgDir, procOf, stay, mu, fd>>

\* loadOrCreateCounter, no counter file: maxID := findMaxIndexID(dir) and the
\* new counter with NextIndexID = maxID + 1, about to be saved
LocScan(w) ==
    LET p == procOf[w]
        d == DirOf(w)
    IN
    /\ pc[w] = "loc_scan"
    /\ lc' = [lc EXCEPT ![w] = FindMaxIndexID(d) + 1]
    /\ sctx' = [sctx EXCEPT ![w] = "init"]
    /\ pc' = [pc EXCEPT ![w] = "sv_open"]
    /\ boot' = [boot EXCEPT ![p] =
                  [st |-> "scanned",
                   seen |-> {recs[d][n].idx : n \in {m \in Names : recs[d][m].st = "ok"}},
                   empty |-> \A n \in Names : recs[d][n].st = "none",
                   start |-> 0]]
    /\ UNCHANGED <<filevars, handed, log, assigned, auxvars, cfgDir, procOf, stay, once, gc, mu,
                   cmd, ctr, id, fd, loaded, cur, sv>>

\* save() returned nil to loadOrCreateCounter (the counter becomes globalCounter)
\* or to NextID (unlock, return id; the caller goes on to SaveContactFile)
SaveOk(w) ==
    LET p == procOf[w]
        d == gc[p].dir
    IN
    IF sctx[w] = "init"
    THEN /\ gc' = [gc EXCEPT ![p] = Counter(lc[w], DirOf(w))]
         /\ once' = [once EXCEPT ![p] = "done"]
         /\ boot' = [boot EXCEPT ![p].st = "created", ![p].start = lc[w]]
         /\ GetReturned(w, "ptr")
         /\ UNCHANGED <<mu, handed, log, assigned>>
    ELSE /\ mu' = [mu EXCEPT ![p] = FALSE]
         /\ handed' = [handed EXCEPT ![d][id[w]] = IF @ < 2 THEN @ + 1 ELSE 2]
         /\ log' = [log EXCEPT ![p] = Append(@, id[w])]
         /\ IF cmd[w] = "load"
            THEN loaded' = [loaded EXCEPT ![w][cur[w]] = id[w]]
            ELSE UNCHANGED loaded
         /\ sv' = [sv EXCEPT ![w] = id[w]]
         /\ pc' = [pc EXCEPT ![w] = "scf_open"]
         /\ sctx' = [sctx EXCEPT ![w] = "none"]
         /\ UNCHANGED <<gc, once, boot, assigned, cmd, ctr, id, lc, cur>>

\* the error return as it would be if NextID did not take its increment back
SaveErrNoRollback(w) ==
    LET p == procOf[w] IN
    /\ once' = [once EXCEPT ![p] = "done"]
    /\ boot' = IF sctx[w] = "init" THEN [boot EXCEPT ![p].st = "failed"] ELSE boot
    /\ mu' = [mu EXCEPT ![p] = FALSE]
    /\ Done(w)
    /\ UNCHANGED <<gc, handed, log, assigned>>

\* save() returned an error: loadOrCreateCounter returns (nil, err) and the
\* command fails; NextID takes its increment back, unlocks and returns (0, err)
SaveErr(w) ==
    LET p == procOf[w] IN
    IF sctx[w] = "init"
    THEN /\ once' = [once EXCEPT ![p] = "done"]
         /\ boot' = [boot EXCEPT ![p].st = "failed"]
         /\ Done(w)
         /\ UNCHANGED <<gc, mu, handed, log, assigned>>
    ELSE /\ gc' = [gc EXCEPT ![p].next = @ - 1]
         /\ mu' = [mu EXCEPT ![p] = FALSE]
         /\ Done(w)
         /\ UNCHANGED <<once, boot, handed, log, assigned>>

\* the worker is inside save()
InSave(w) == pc[w] \in {"sv_open", "sv_write", "sv_rename"}

\* the file save() is working on: the directory of the counter being saved
SaveDir(w) == IF sctx[w] = "init" THEN DirOf(w) ELSE gc[procOf[w]].dir

\* save(): os.WriteFile(tempFile, ...) opens the file with O_CREATE|O_TRUNC
SaveOpen(w) ==
    LET d == SaveDir(w) IN
    /\ pc[w] = "sv_open"
    /\ \/ /\ IF TempFile(w) = "tmp"
             THEN /\ tmpFile' = [tmpFile EXCEPT ![d] = PartialCounter]
                  /\ UNCHANGED counterFile
             ELSE /\ counterFile' = [counterFile EXCEPT ![d] = PartialCounter]
                  /\ UNCHANGED tmpFile
          /\ fd' = [fd EXCEPT ![w] = TempFile(w)]
          /\ pc' = [pc EXCEPT ![w] = "sv_write"]
          /\ UNCHANGED <<once, gc, mu, histvars, cmd, ctr, id, lc, sctx, loaded, cur, sv>>
       \/ /\ SaveErr(w)                            \* the open fails
          /\ UNCHANGED <<counterFile, tmpFile, fd>>
    /\ UNCHANGED <<recs, nextName, auxvars, cfgDir, procOf, stay>>

\* save(): os.WriteFile writes the bytes to the file it opened, and closes it.
\* The open file follows its inode: to the counter file's name if another
\* process renamed the temporary file meanwhile, nowhere if it was removed.
SaveWrite(w) ==
    LET d == SaveDir(w) IN
    /\ pc[w] = "sv_write"
    /\ \/ /\ tmpFile' = IF fd[w] = "tmp"
                        THEN [tmpFile EXCEPT ![d] = CounterVal(SaveData(w))]
                        ELSE tmpFile
          /\ counterFile' = IF fd[w] = "ctr"
                            THEN [counterFile EXCEPT ![d] = CounterVal(SaveData(w))]
                            ELSE counterFile
          /\ fd' = [fd EXCEPT ![w] = "none"]
          /\ pc' = [pc EXCEPT ![w] = "sv_rename"]
          /\ UNCHANGED <<once, gc, mu, histvars, cmd, ctr, id, lc, sctx, loaded, cur, sv>>
       \/ /\ SaveErr(w)                            \* the write fails: line 121-123
          /\ fd' = [fd EXCEPT ![w] = "none"]
          /\ UNCHANGED <<counterFile, tmpFile>>
    /\ UNCHANGED <<recs, nextName, auxvars, cfgDir, procOf, stay>>

\* the open files of the other workers after `w` renamed (moved = TRUE) or
\* removed (moved = FALSE) the temporary file of directory d
FdAfter(w, d, moved) ==
    [x \in Workers |->
        IF fd[x] = "none" \/ SaveDir(x) # d THEN fd[x]
        ELSE IF fd[x] = "tmp" THEN (IF moved THEN "ctr" ELSE "gone")
        ELSE IF fd[x] = "ctr" THEN (IF moved THEN "gone" ELSE "ctr")
        ELSE fd[x]]

\* save(): os.Rename(tempFile, c.filePath); on error os.Remove(tempFile)
SaveRename(w) ==
    LET d == SaveDir(w)
        src == IF TempFile(w) = "tmp" THEN tmpFile[d] ELSE counterFile[d]
    IN
    /\ pc[w] = "sv_rename"
    /\ \/ /\ src.st # "none"
          /\ counterFile' = [counterFile EXCEPT ![d] = src]
          /\ tmpFile' = IF TempFile(w) = "tmp"
                        THEN [tmpFile EXCEPT ![d] = NoCounter] ELSE tmpFile
          /\ fd' = IF TempFile(w) = "tmp" THEN FdAfter(w, d, TRUE) ELSE fd
          /\ SaveOk(w)
       \/ /\ IF TempFile(w) = "tmp"                \* the rename fails
             THEN /\ tmpFile' = [tmpFile EXCEPT ![d] = NoCounter]
                  /\ UNCHANGED counterFile
             ELSE /\ counterFile' = [counterFile EXCEPT ![d] = NoCounter]
                  /\ UNCHANGED tmpFile
          /\ fd' = IF TempFile(w) = "tmp" THEN FdAfter(w, d, FALSE) ELSE fd
          /\ SaveErr(w)
    /\ UNCHANGED <<recs, nextName, auxvars, cfgDir, procOf, stay>>

\* NextID as it would be without c.mu.Lock()
NextIDNoLock(w) ==
    LET p == procOf[w] IN
    /\ pc[w] = "nid"
    /\ ctr[w] = "ptr"
    /\ gc[p].next <= MaxId
    /\ mu' = [mu EXCEPT ![p] = TRUE]
    /\ id' = [id EXCEPT ![w] = gc[p].next]
    /\ gc' = [gc EXCEPT ![p].next = @ + 1]
    /\ sctx' = [sctx EXCEPT ![w] = "next"]
    /\ pc' = [pc EXCEPT ![w] = "sv_open"]
    /\ UNCHANGED <<filevars, histvars, auxvars, cfgDir, procOf, stay, once, cmd, ctr, lc, fd,
                   loaded, cur, sv>>

\* NextID as it would be if it read the counter file again under the lock
NextIDReread(w) ==
    LET p == procOf[w]
        f == counterFile[gc[p].dir]
        n == IF f.st = "ok" THEN f.next ELSE gc[p].next
    IN
    /\ pc[w] = "nid"
    /\ ctr[w] = "ptr"
    /\ ~mu[p]
    /\ n <= MaxId
    /\ mu' = [mu EXCEPT ![p] = TRUE]
    /\ id' = [id EXCEPT ![w] = n]
    /\ gc' = [gc EXCEPT ![p].next = n + 1]
    /\ sctx' = [sctx EXCEPT ![w] = "next"]
    /\ pc' = [pc EXCEPT ![w] = "sv_open"]
    /\ UNCHANGED <<filevars, histvars, auxvars, cfgDir, procOf, stay, once, cmd, ctr, lc, fd,
                   loaded, cur, sv>>

\* NextID: c.mu.Lock(); id := c.NextIndexID; c.NextIndexID++ ; then save()
NextID(w) ==
    LET p == procOf[w] IN
    /\ pc[w] = "nid"
    /\ ctr[w] = "ptr"
    /\ ~mu[p]
    /\ gc[p].next <= MaxId
    /\ mu' = [mu EXCEPT ![p] = TRUE]
    /\ id' = [id EXCEPT ![w] = gc[p].next]
    /\ gc' = [gc EXCEPT ![p].next = @ + 1]
    /\ sctx' = [sctx EXCEPT ![w] = "next"]
    /\ pc' = [pc EXCEPT ![w] = "sv_open"]
    /\ UNCHANGED <<filevars, histvars, auxvars, cfgDir, procOf, stay, once, cmd, ctr, lc, fd,
                   loaded, cur, sv>>

\* NextID on the nil counter GetIDCounter returned with a nil error: the
\* method dereferences c, the process panics
NextIDNil(w) ==
    /\ pc[w] = "nid"
    /\ ctr[w] = "nil"
    /\ Restart(procOf[w])
    /\ UNCHANGED filevars

\* ------------------------------------------------------------- commands
\* apeople new: the contact and its file name are built, then GetIDCounter
NewCommand(w) ==
    LET d == DirOf(w) IN
    /\ pc[w] = "idle"
    /\ nextName[d] <= MaxNames
    /\ cmd' = [cmd EXCEPT ![w] = "new"]
    /\ cur' = [cur EXCEPT ![w] = nextName[d]]
    /\ nextName' = [nextName EXCEPT ![d] = @ + 1]
    /\ pc' = [pc EXCEPT ![w] = "gic"]
    /\ UNCHANGED <<counterFile, tmpFile, recs, histvars, auxvars, cfgDir, procOf, stay, once, gc, mu,
                   ctr, id, lc, sctx, fd, loaded, sv>>

\* the TUI's new-contact form: NewContact and SaveContactFile, no index
SaveNewContact(w) ==
    LET d == DirOf(w) IN
    /\ pc[w] = "idle"
    /\ nextName[d] <= MaxNames
    /\ cmd' = [cmd EXCEPT ![w] = "tuinew"]
    /\ cur' = [cur EXCEPT ![w] = nextName[d]]
    /\ nextName' = [nextName EXCEPT ![d] = @ + 1]
    /\ sv' = [sv EXCEPT ![w] = 0]
    /\ pc' = [pc EXCEPT ![w] = "scf_open"]
    /\ UNCHANGED <<counterFile, tmpFile, recs, histvars, auxvars, cfgDir, procOf, stay, once, gc, mu,
                   ctr, id, lc, sctx, fd, loaded>>

\* list, show, update, log, bump, delete, loadContacts: FindContacts, then
\* AssignIndexIDs calls GetIDCounter
FindContacts(w) ==
    /\ pc[w] = "idle"
    /\ cmd' = [cmd EXCEPT ![w] = "load"]
    /\ loaded' = [loaded EXCEPT ![w] = Snapshot(DirOf(w))]
    /\ pc' = [pc EXCEPT ![w] = "gic"]
    /\ UNCHANGED <<filevars, histvars, auxvars, cfgDir, procOf, stay, once, gc, mu,
                   ctr, id, lc, sctx, fd, cur, sv>>

\* AssignIndexIDs as it would be if it returned after the first record it saved
AfterSaveFirstOnly(w) ==
    IF cmd[w] = "load"
    THEN /\ pc' = [pc EXCEPT ![w] = "post"]
         /\ UNCHANGED <<cur, cmd, ctr, id, lc, sctx, loaded, sv>>
    ELSE Done(w)

\* what the caller of SaveContactFile does when it returned nil
AfterSave(w) ==
    IF cmd[w] = "load" /\ NextZero(loaded[w], cur[w] + 1) # 0
    THEN /\ pc' = [pc EXCEPT ![w] = "nid"]
         /\ cur' = [cur EXCEPT ![w] = NextZero(loaded[w], cur[w] + 1)]
         /\ UNCHANGED <<cmd, ctr, id, lc, sctx, loaded, sv>>
    ELSE IF cmd[w] = "load"
    THEN /\ pc' = [pc EXCEPT ![w] = "post"]
         /\ UNCHANGED <<cur, cmd, ctr, id, lc, sctx, loaded, sv>>
    ELSE Done(w)

\* SaveContactFile: os.WriteFile(contact.FilePath, ...) opens with O_TRUNC
ScfOpen(w) ==
    LET d == DirOf(w) IN
    /\ pc[w] = "scf_open"
    /\ \/ /\ recs' = [recs EXCEPT ![d][cur[w]] = PartialRec]
          /\ pc' = [pc EXCEPT ![w] = "scf_write"]
          /\ UNCHANGED <<cmd, ctr, id, lc, sctx, loaded, cur, sv>>
       \/ /\ Done(w)                               \* the open fails
          /\ UNCHANGED recs
    /\ UNCHANGED <<counterFile, tmpFile, nextName, histvars, auxvars, cfgDir, procOf, stay,
                   once, gc, mu, fd>>

\* SaveContactFile: os.WriteFile writes the frontmatter and the body
\* (a file removed since the open stays removed)
ScfWrite(w) ==
    LET d == DirOf(w) IN
    /\ pc[w] = "scf_write"
    /\ \/ /\ recs' = IF recs[d][cur[w]].st = "none" THEN recs
                     ELSE [recs EXCEPT ![d][cur[w]] = Rec(sv[w])]
          /\ assigned' = IF recs[d][cur[w]].st # "none" /\ assigned[d][cur[w]] = 0
                         THEN [assigned EXCEPT ![d][cur[w]] = sv[w]]
                         ELSE assigned
          /\ AfterSave(w)
       \/ /\ Done(w)                               \* the write fails
          /\ UNCHANGED <<recs, assigned>>
    /\ UNCHANGED <<counterFile, tmpFile, nextName, handed, log, boot, auxvars, cfgDir, procOf, stay,
                   once, gc, mu, fd>>

\* after AssignIndexIDs: list and show return; update, log and bump save the
\* contact FindContactByID found; delete removes its file
PostLoad(w) ==
    LET d == DirOf(w) IN
    /\ pc[w] = "post"
    /\ \/ /\ Done(w)
          /\ UNCHANGED recs
       \/ \E n \in Names :
             /\ loaded[w][n] >= 0
             /\ cmd' = [cmd EXCEPT ![w] = "mutate"]
             /\ cur' = [cur EXCEPT ![w] = n]
             /\ sv' = [sv EXCEPT ![w] = loaded[w][n]]
             /\ pc' = [pc EXCEPT ![w] = "scf_open"]
             /\ UNCHANGED <<recs, ctr, id, lc, sctx, loaded>>
       \/ \E n \in Names :
             /\ loaded[w][n] >= 0
             /\ recs' = [recs EXCEPT ![d][n] = NoRec]   \* os.Remove
             /\ Done(w)
    /\ UNCHANGED <<counterFile, tmpFile, nextName, histvars, auxvars, cfgDir, procOf, stay,
                   once, gc, mu, fd>>

\* the process ends after its command (every CLI invocation is a fresh process)
Exit(p) ==
    /\ WorkersOf(p) # {}
    /\ \A w \in WorkersOf(p) : pc[w] = "idle"
    /\ once[p] # "new"
    /\ Restart(p)
    /\ UNCHANGED filevars

\* the process dies in the middle of a command
Crash(p) ==
    /\ WorkersOf(p) # {}
    /\ \A w \in WorkersOf(p) : pc[w] # "off"
    /\ \E w \in WorkersOf(p) : pc[w] # "idle"
    /\ Restart(p)
    /\ UNCHANGED filevars

\* the caller hands the exported functions another directory: the `dir`
\* argument of GetIDCounter and AssignIndexIDs for the commands that follow.
\* The caller moves from the first directory to the second once, after at
\* most MaxMoved records were created in the first.
OtherDir(p) ==
    /\ WorkersOf(p) # {}
    /\ \A w \in WorkersOf(p) : pc[w] = "idle"
    /\ cfgDir[p] = "d1"
    /\ nextName["d1"] <= MaxMoved + 1
    /\ cfgDir' = [cfgDir EXCEPT ![p] = "d2"]
    /\ UNCHANGED <<filevars, histvars, auxvars, procOf, stay, once, gc, mu,
                   pc, cmd, ctr, id, lc, sctx, fd, loaded, cur, sv>>

\* ------------------------------------------------------- contact status
\* model.Contact: the fields the status methods read.  A time is a number of
\* half days, so that the division by 24 hours has something to truncate.
NilTime == [nil |-> TRUE, t |-> 0]
Time(t) == [nil |-> FALSE, t |-> t]

NoContact == [ContactStyle |-> "", RelationshipType |-> "", CustomFrequencyDays |-> 0,
              LastContacted |-> NilTime, LastInteractionType |-> ""]
NoRes == [set |-> FALSE, DaysSince |-> 0, overdue |-> FALSE, attention |-> FALSE,
          fresh |-> FALSE, OverdueStatus |-> ""]

\* Go's integer conversion and integer division truncate toward zero
Quot(a, b) == IF a >= 0 THEN a \div b ELSE -((-a) \div b)

GetFrequencyDays(c) ==
    IF c.CustomFrequencyDays > 0 THEN c.CustomFrequencyDays
    ELSE CASE c.RelationshipType \in {"close", "family"} -> 30
           [] c.RelationshipType = "work" -> 60
           [] c.RelationshipType = "network" -> 90
           [] OTHER -> 0

\* a record never contacted counts as contacted just now
DaysSinceContactZero(c, t) ==
    IF c.LastContacted.nil THEN 0
    ELSE Quot(t - c.LastContacted.t, HalfDaysPerDay)

DaysSinceContact(c, t) ==
    IF c.LastContacted.nil THEN -1
    ELSE Quot(t - c.LastContacted.t, HalfDaysPerDay)

\* overdue from the day the contact is due
IsOverdueAtDue(c, t) ==
    LET freq == GetFrequencyDays(c)
        days == DaysSinceContact(c, t) IN
    IF ~(c.ContactStyle \in {"periodic", ""}) THEN FALSE
    ELSE IF freq = 0 THEN FALSE
    ELSE IF days = -1 THEN TRUE
    ELSE days >= freq

IsOverdue(c, t) ==
    LET freq == GetFrequencyDays(c)
        days == DaysSinceContact(c, t) IN
    IF ~(c.ContactStyle \in {"periodic", ""}) THEN FALSE
    ELSE IF freq = 0 THEN FALSE
    ELSE IF days = -1 THEN TRUE
    ELSE days > freq

\* attention whatever the contact style
NeedsAttentionAnyStyle(c, t) ==
    LET freq == GetFrequencyDays(c)
        days == DaysSinceContact(c, t) IN
    IF freq = 0 THEN FALSE
    ELSE IF days = -1 THEN TRUE
    ELSE days > freq - 7 /\ days <= freq

NeedsAttention(c, t) ==
    LET freq == GetFrequencyDays(c)
        days == DaysSinceContact(c, t) IN
    IF ~(c.ContactStyle \in {"periodic", ""}) THEN FALSE
    ELSE IF freq = 0 THEN FALSE
    ELSE IF days = -1 THEN TRUE
    ELSE days > freq - 7 /\ days <= freq

IsWithinThreshold(c, t) ==
    LET freq == GetFrequencyDays(c)
        days == DaysSinceContact(c, t) IN
    IF ~(c.ContactStyle \in {"periodic", ""}) THEN FALSE
    ELSE IF freq = 0 THEN FALSE
    ELSE IF days = -1 THEN FALSE
    ELSE days >= 0 /\ days <= Quot(freq, 2)

\* ParseContactFile's runtime fields, and the three flags they come from
Status(c, t) ==
    [set |-> TRUE,
     DaysSince |-> DaysSinceContact(c, t),
     overdue |-> IsOverdue(c, t),
     attention |-> NeedsAttention(c, t),
     fresh |-> IsWithinThreshold(c, t),
     OverdueStatus |-> IF IsOverdue(c, t) THEN "overdue"
                       ELSE IF NeedsAttention(c, t) THEN "attention"
                       ELSE IF IsWithinThreshold(c, t) THEN "good"
                       ELSE ""]

\* a command loads the record: its status is computed at the current time
ComputeStatus ==
    /\ res' = Status(contact, now)
    /\ UNCHANGED <<contact, now, nostatus>>

\* a log that records the interaction type and leaves the timestamp
LogInteractionNoStamp(it) ==
    /\ res.set
    /\ contact' = [contact EXCEPT !.LastInteractionType = it]
    /\ UNCHANGED <<now, res, nostatus>>

\* logCommand / logContactInteraction: the record was loaded (its status
\* computed), the interaction is stamped with time.Now() and the record saved
LogInteraction(it) ==
    /\ res.set
    /\ contact' = [contact EXCEPT !.LastContacted = Time(now),
                                  !.LastInteractionType = it]
    /\ UNCHANGED <<now, res, nostatus>>

\* half a day passes; what was computed before is no longer current
Tick(until) ==
    /\ now < until
    /\ now' = now + 1
    /\ res' = NoRes
    /\ UNCHANGED <<contact, nostatus>>

\* ------------------------------------------------------ interaction log
\* A body is a sequence of symbols: "H" is the text `## Interaction Log`, "n" a
\* newline, "s" a space, "#" a number sign and "x" any other character.  An
\* entry is one symbol that is none of these, the text of one log line.
Header == <<"H">>

\* strings.Index(content, header): the place of the first occurrence, 0 if none
RECURSIVE IndexFrom(_, _)
IndexFrom(c, i) ==
    IF i > Len(c) THEN 0
    ELSE IF c[i] = "H" THEN i
    ELSE IndexFrom(c, i + 1)

Index(c) == IndexFrom(c, 1)

\* a loop that stops after the first newline
SkipOneNewline(c, pos) ==
    IF pos < Len(c) /\ c[pos + 1] = "n" THEN pos + 1 ELSE pos

\* the loop over `rest`: the place after the newlines that follow place pos
RECURSIVE SkipNewlines(_, _)
SkipNewlines(c, pos) ==
    IF pos < Len(c) /\ c[pos + 1] = "n" THEN SkipNewlines(c, pos + 1) ELSE pos

\* a trim that takes one newline only
TrimRightOnce(c) ==
    IF c # <<>> /\ c[Len(c)] = "n" THEN SubSeq(c, 1, Len(c) - 1) ELSE c

\* strings.TrimRight(content, "\n")
RECURSIVE TrimRight(_)
TrimRight(c) ==
    IF c # <<>> /\ c[Len(c)] = "n" THEN TrimRight(SubSeq(c, 1, Len(c) - 1)) ELSE c

\* an insertion that writes over the character at the insertion point
InsertAtOverwrite(c, insertPos, entry) ==
    SubSeq(c, 1, insertPos) \o entry \o <<"n">> \o SubSeq(c, insertPos + 2, Len(c))

\* content[:insertPos] + entry + "\n" + content[insertPos:]
InsertAt(c, insertPos, entry) ==
    SubSeq(c, 1, insertPos) \o entry \o <<"n">> \o SubSeq(c, insertPos + 1, Len(c))

AppendInteractionLog(c, entry) ==
    LET idx == Index(c) IN
    IF idx > 0
    THEN LET afterHeader == idx - 1 + Len(Header)
             insertPos == SkipNewlines(c, afterHeader) IN
         InsertAt(c, insertPos, entry)
    ELSE LET trimmed == TrimRight(c) IN
         IF trimmed = <<>>
         THEN <<"n">> \o Header \o <<"n", "n">> \o entry \o <<"n">>
         ELSE trimmed \o <<"n", "n">> \o Header \o <<"n", "n">> \o entry \o <<"n">>

\* logCommand: contact.Content = parser.AppendInteractionLog(contact.Content, logEntry)
AppendEntry(e) ==
    /\ Len(entries) < MaxAppends
    /\ content' = AppendInteractionLog(content, <<e>>)
    /\ before' = content
    /\ entries' = Append(entries, e)
    /\ UNCHANGED <<content0, nobody>>

\* ------------------------------------------------------------------ tags
\* strings.TrimSpace, on the flag values the model uses
TrimSpace(t) ==
    CASE t = " contact" -> "contact"
      [] t = " " -> ""
      [] OTHER -> t

\* strings.TrimPrefix(tag, "#"), on the form fields the model uses
TrimPrefixHash(t) ==
    CASE t = "#contact" -> "contact"
      [] t = "##contact" -> "#contact"
      [] t = "#a" -> "a"
      [] t = "#" -> ""
      [] OTHER -> t

\* the items of a flag, each trimmed; the fields of a form, each without its "#"
TrimSpaceAll(q) == [i \in 1..Len(q) |-> TrimSpace(q[i])]
TrimPrefixAll(q) == [i \in 1..Len(q) |-> TrimPrefixHash(q[i])]
IsOtherTag(t) == t # "" /\ t # "contact"

\* contactTags := []string{"contact"}, then every other non-empty item
BuildTags(items) == <<"contact">> \o SelectSeq(items, IsOtherTag)

\* acore.AddRelation: adding a value already present is a no-op
AddRelation(set, v) ==
    IF \E i \in 1..Len(set) : set[i] = v THEN set ELSE Append(set, v)

\* acore.RemoveRelation: the survivors keep their order
RemoveRelation(set, v) ==
    LET Keep(x) == x # v IN SelectSeq(set, Keep)

\* apeople new --tags <items>
NewTags(items) ==
    /\ lastOp.op = "none"
    /\ tags' = BuildTags(TrimSpaceAll(items))
    /\ lastOp' = [op |-> "new", arg |-> items]
    /\ UNCHANGED notags

\* the TUI's new-contact form
SaveNewTags(fields) ==
    /\ lastOp.op = "none"
    /\ tags' = BuildTags(TrimPrefixAll(fields))
    /\ lastOp' = [op |-> "tui-new", arg |-> fields]
    /\ UNCHANGED notags

\* apeople update --tags <items>: an empty flag leaves the tags
UpdateTags(items) ==
    /\ lastOp.op # "none"
    /\ tags' = IF items # <<>> THEN BuildTags(TrimSpaceAll(items)) ELSE tags
    /\ lastOp' = [op |-> "tags", arg |-> items]
    /\ UNCHANGED notags

\* apeople update --add-tag <t>
UpdateAddTag(t) ==
    /\ lastOp.op # "none"
    /\ tags' = IF TrimSpace(t) # "" /\ TrimSpace(t) # "contact"
               THEN AddRelation(tags, TrimSpace(t)) ELSE tags
    /\ lastOp' = [op |-> "add-tag", arg |-> <<t>>]
    /\ UNCHANGED notags

\* a --remove-tag that removes whatever it is given
UpdateRemoveAnyTag(t) ==
    /\ lastOp.op # "none"
    /\ tags' = RemoveRelation(tags, TrimSpace(t))
    /\ lastOp' = [op |-> "remove-tag", arg |-> <<t>>]
    /\ UNCHANGED notags

\* apeople update --remove-tag <t>
UpdateRemoveTag(t) ==
    /\ lastOp.op # "none"
    /\ tags' = IF TrimSpace(t) # "contact"
               THEN RemoveRelation(tags, TrimSpace(t)) ELSE tags
    /\ lastOp' = [op |-> "remove-tag", arg |-> <<t>>]
    /\ UNCHANGED notags

\* the TUI's edit form
SaveEditedTags(fields) ==
    /\ lastOp.op # "none"
    /\ tags' = BuildTags(TrimPrefixAll(fields))
    /\ lastOp' = [op |-> "tui-edit", arg |-> fields]
    /\ UNCHANGED notags

\* ------------------------------------------------------ the record codec
\* A record file is a sequence of symbols: "D" is three dashes, "n" a newline,
\* "c" any other character, "q" a double quote, "K" the key `title: `, "G" the
\* entry `tags: [contact]` with its newline, and Stamps[t + 1] the entry
\* `updated_at: t` with its newline.
Stamps == <<"U0", "U1", "U2", "U3">>
Delim == <<"D", "n">>

\* model.Contact as the codec sees it; st is "none" before ParseContactFile
\* has run, "ok" for a contact and the error otherwise
NotParsed == [st |-> "none", Title |-> <<>>, Tags |-> FALSE, UpdatedAt |-> 0,
              Content |-> <<>>]

\* the first place at or after i where "---\n" starts in b, 0 if none
RECURSIVE DelimFrom(_, _)
DelimFrom(b, i) ==
    IF i + 1 > Len(b) THEN 0
    ELSE IF b[i] = "D" /\ b[i + 1] = "n" THEN i
    ELSE DelimFrom(b, i + 1)

\* bytes.SplitN(content, []byte("---\n"), 3); <<>> stands for fewer than 3 parts
SplitN(b) ==
    LET i1 == DelimFrom(b, 1)
        i2 == IF i1 = 0 THEN 0 ELSE DelimFrom(b, i1 + 2)
    IN IF i2 = 0 THEN <<>>
       ELSE <<SubSeq(b, 1, i1 - 1), SubSeq(b, i1 + 2, i2 - 1), SubSeq(b, i2 + 2, Len(b))>>

\* the place of the first newline of h at or after i, Len(h) + 1 if none
RECURSIVE LineEnd(_, _)
LineEnd(h, i) ==
    IF i > Len(h) THEN i
    ELSE IF h[i] = "n" THEN i
    ELSE LineEnd(h, i + 1)

\* the string a YAML scalar stands for: what is between the quotes of a
\* double-quoted scalar, the text of a plain one
Unquote(v) ==
    IF Len(v) >= 2 /\ v[1] = "q" /\ v[Len(v)] = "q" THEN SubSeq(v, 2, Len(v) - 1)
    ELSE v

\* yaml.Unmarshal(parts[1], &contact): the entries of the mapping, one by one
RECURSIVE UnmarshalFrom(_, _, _)
UnmarshalFrom(h, i, c) ==
    IF i > Len(h) THEN c
    ELSE IF h[i] = "n" THEN UnmarshalFrom(h, i + 1, c)
    ELSE IF h[i] = "G" THEN UnmarshalFrom(h, i + 1, [c EXCEPT !.Tags = TRUE])
    ELSE IF \E t \in 1..Len(Stamps) : h[i] = Stamps[t]
         THEN UnmarshalFrom(h, i + 1,
                  [c EXCEPT !.UpdatedAt = (CHOOSE t \in 1..Len(Stamps) : h[i] = Stamps[t]) - 1])
    ELSE IF h[i] = "K"
         THEN LET e == LineEnd(h, i + 1) IN
              UnmarshalFrom(h, e + 1, [c EXCEPT !.Title = Unquote(SubSeq(h, i + 1, e - 1))])
    ELSE [c EXCEPT !.st = "error parsing frontmatter"]

\* what ParseContactFile returns for a file of bytes b
Decoded(b) ==
    LET parts == SplitN(b) IN
    IF parts = <<>> THEN [NotParsed EXCEPT !.st = "invalid file format"]
    ELSE LET c == UnmarshalFrom(parts[2], 1, [NotParsed EXCEPT !.st = "ok"]) IN
         IF c.st # "ok" THEN [NotParsed EXCEPT !.st = c.st]
         ELSE IF ~c.Tags THEN [NotParsed EXCEPT !.st = "not a contact file"]
         ELSE [c EXCEPT !.Content = parts[3]]

\* how yaml.v3 writes a string value: the empty string as "", a string that
\* reads back as itself (here: one that starts with an ordinary character)
\* as a plain scalar
Scalar(v) == IF v = <<>> THEN <<"q", "q">> ELSE v

\* yaml.Marshal(contact): the fields in the order of the struct
Marshal(c) ==
    <<"K">> \o Scalar(c.Title) \o <<"n">> \o (IF c.Tags THEN <<"G">> ELSE <<>>)
        \o <<Stamps[c.UpdatedAt + 1]>>

ParseContactFile ==
    /\ fileBytes # <<>>
    /\ parsed.st = "none"
    /\ parsed' = Decoded(fileBytes)
    /\ parsed0' = IF saves = 0 THEN parsed' ELSE parsed0
    /\ UNCHANGED <<fileBytes, saves, nocodec>>

\* SaveContactFile(contact) for the contact a parse returned; the command ends
\* and the next one parses the file again
SaveContactFile ==
    /\ parsed.st = "ok"
    /\ saves < MaxSaves
    /\ LET c == [parsed EXCEPT !.UpdatedAt = saves + 1] IN
       fileBytes' = Delim \o Marshal(c) \o Delim \o c.Content
    /\ parsed' = NotParsed
    /\ saves' = saves + 1
    /\ UNCHANGED <<parsed0, nocodec>>

\* ------------------------------------------ the commands on one directory
\* The records of a directory, each command run from its start to its end;
\* every write succeeds.  A record is a model.Contact; its path is the pair of
\* the identifier and the title's slug that acore.BuildFilename joins.
GenerateFilePath(c) ==
    <<c.Identifier, CASE c.Title = "Ann" -> "ann" [] c.Title = "Bob" -> "bob" [] OTHER -> "">>

\* NewContact(title, dir): a fresh identifier and the title, nothing else set
NewContact(title, S) ==
    [Identifier |-> 1 + Max({r.Identifier : r \in S}), Title |-> title,
     FilePath |-> <<0, "">>, IndexID |-> 0, State |-> "", ContactStyle |-> "",
     RelationshipType |-> "", CustomFrequencyDays |-> 0, LastContacted |-> NilTime,
     LastInteractionType |-> "", LastBumpDate |-> NilTime, BumpCount |-> 0,
     UpdatedAt |-> 0, Content |-> ""]

\* SaveContactFile(c) at time t: the file at c.FilePath is replaced by the
\* record with a new modification time
Written(S, c, t) == {r \in S : r.FilePath # c.FilePath} \cup {[c EXCEPT !.UpdatedAt = t]}

\* AssignIndexIDs: each contact with IndexID 0, in the order of the file
\* names, gets the counter's next value n and is saved
RECURSIVE AssignIndexIDs(_, _, _)
AssignIndexIDs(S, n, t) ==
    LET Z == {r \in S : r.IndexID = 0} IN
    IF Z = {} THEN S
    ELSE LET r == CHOOSE x \in Z : \A y \in Z : x.Identifier <= y.Identifier IN
         AssignIndexIDs(Written(S, [r EXCEPT !.IndexID = n], t), n + 1, t)

\* FindContactByID, by the identifier
FindContactByID(S, i) == CHOOSE r \in S : r.Identifier = i

\* a bump that counts as a contact
BumpedAsContact(c, t) ==
    [c EXCEPT !.LastBumpDate = Time(t), !.BumpCount = @ + 1, !.LastContacted = Time(t)]

\* contact.LastBumpDate = &now; contact.BumpCount++
Bumped(c, t) == [c EXCEPT !.LastBumpDate = Time(t), !.BumpCount = @ + 1]

\* an update that moves the record to the path of its new title
RenamedAndMoved(c, name) ==
    [c EXCEPT !.Title = name, !.FilePath = GenerateFilePath([c EXCEPT !.Title = name])]

\* contact.Title = name
Renamed(c, name) == [c EXCEPT !.Title = name]

\* apeople new <args>
CreateRecord(args) ==
    /\ clock < MaxClock
    /\ IF Len(args) = 0
       THEN /\ lastCmd' = [op |-> "new", title |-> "", id |-> 0, err |-> "usage",
                           before |-> store, next |-> nextIndexID, at |-> clock]
            /\ UNCHANGED <<store, nextIndexID>>
       ELSE LET n == [NewContact(args[1], store) EXCEPT
                         !.RelationshipType = "network", !.ContactStyle = "periodic",
                         !.State = "ok", !.IndexID = nextIndexID]
                c == [n EXCEPT !.FilePath = GenerateFilePath(n)]
            IN /\ store' = Written(store, c, clock)
               /\ nextIndexID' = nextIndexID + 1
               /\ lastCmd' = [op |-> "new", title |-> args[1], id |-> c.Identifier,
                              err |-> "", before |-> store, next |-> nextIndexID,
                              at |-> clock]
    /\ clock' = clock + 1
    /\ UNCHANGED nostore

\* the TUI's create form, saved
CreateInForm(title) ==
    /\ clock < MaxClock
    /\ IF TrimSpace(title) = ""
       THEN /\ lastCmd' = [op |-> "tui-new", title |-> title, id |-> 0,
                           err |-> "name is required", before |-> store,
                           next |-> nextIndexID, at |-> clock]
            /\ UNCHANGED store
       ELSE LET n == [NewContact(TrimSpace(title), store) EXCEPT
                         !.RelationshipType = "network", !.ContactStyle = "periodic",
                         !.State = "ok"]
                c == [n EXCEPT !.FilePath = GenerateFilePath(n)]
            IN /\ store' = Written(store, c, clock)
               /\ lastCmd' = [op |-> "tui-new", title |-> title, id |-> c.Identifier,
                              err |-> "", before |-> store, next |-> nextIndexID,
                              at |-> clock]
    /\ clock' = clock + 1
    /\ UNCHANGED <<nextIndexID, nostore>>

\* apeople bump <id>
BumpCommand(i) ==
    /\ clock < MaxClock
    /\ \E r \in store : r.Identifier = i
    /\ LET S == AssignIndexIDs(store, nextIndexID, clock) IN
       store' = Written(S, Bumped(FindContactByID(S, i), clock), clock)
    /\ nextIndexID' = nextIndexID + Cardinality({r \in store : r.IndexID = 0})
    /\ lastCmd' = [op |-> "bump", title |-> "", id |-> i, err |-> "", before |-> store,
                   next |-> nextIndexID, at |-> clock]
    /\ clock' = clock + 1
    /\ UNCHANGED nostore

\* the TUI's bump of a contact of its list
BumpContact(i) ==
    /\ clock < MaxClock
    /\ \E r \in store : r.Identifier = i
    /\ store' = Written(store, Bumped(FindContactByID(store, i), clock), clock)
    /\ lastCmd' = [op |-> "tui-bump", title |-> "", id |-> i, err |-> "", before |-> store,
                   next |-> nextIndexID, at |-> clock]
    /\ clock' = clock + 1
    /\ UNCHANGED <<nextIndexID, nostore>>

\* apeople update <id> --name <name> --state <state>; an empty flag is not applied
UpdateCommand(i, name, state) ==
    /\ clock < MaxClock
    /\ \E r \in store : r.Identifier = i
    /\ LET S == AssignIndexIDs(store, nextIndexID, clock)
           c == FindContactByID(S, i)
           d == IF name # "" THEN Renamed(c, name) ELSE c
           e == IF state # "" THEN [d EXCEPT !.State = state] ELSE d
       IN store' = Written(S, e, clock)
    /\ nextIndexID' = nextIndexID + Cardinality({r \in store : r.IndexID = 0})
    /\ lastCmd' = [op |-> "update", title |-> name, id |-> i, err |-> "", before |-> store,
                   next |-> nextIndexID, at |-> clock]
    /\ clock' = clock + 1
    /\ UNCHANGED nostore

\* the TUI's edit form, saved
SaveEditedContact(i, title, state) ==
    /\ clock < MaxClock
    /\ \E r \in store : r.Identifier = i
    /\ LET c == FindContactByID(store, i)
           d == [Renamed(c, TrimSpace(title)) EXCEPT !.State = state]
       IN store' = Written(store, d, clock)
    /\ lastCmd' = [op |-> "tui-edit", title |-> title, id |-> i, err |-> "", before |-> store,
                   next |-> nextIndexID, at |-> clock]
    /\ clock' = clock + 1
    /\ UNCHANGED <<nextIndexID, nostore>>

\* ---------------------------------------------------------- specification
NoDup(f) == \A a, b \in InitNames :
    (a # b /\ f[a].st = "ok" /\ f[b].st = "ok" /\ f[a].idx > 0) => f[a].idx # f[b].idx

InitRecs == {f \in [Names -> {NoRec, PartialRec} \cup {Rec(i) : i \in InitIdx}] :
               /\ \A n \in Names \ InitNames : f[n] = NoRec
               /\ NoDup(f)}

EmptyDir == [n \in Names |-> NoRec]

\* the counter file of a directory the program left behind: none yet, or one
\* beyond every index a record holds
InitCounters(f) ==
    LET m == Max({f[n].idx : n \in Names}) IN
    {NoCounter} \cup {CounterVal(v) : v \in (m + 1)..(m + 2)}

\* no process has started: nothing loaded, no lock held, no temp file
InitProcs ==
    /\ tmpFile = [d \in Dirs |-> NoCounter]
    /\ cfgDir = [p \in Procs |-> "d1"]
    /\ once = [p \in Procs |-> "new"]
    /\ gc = [p \in Procs |-> NilCounter]
    /\ mu = [p \in Procs |-> FALSE]
    /\ cmd = [w \in Workers |-> "none"]
    /\ ctr = [w \in Workers |-> "none"]
    /\ id = [w \in Workers |-> 0]
    /\ lc = [w \in Workers |-> 0]
    /\ sctx = [w \in Workers |-> "none"]
    /\ fd = [w \in Workers |-> "none"]
    /\ loaded = [w \in Workers |-> NotLoaded]
    /\ cur = [w \in Workers |-> 0]
    /\ sv = [w \in Workers |-> 0]
    /\ handed = [d \in Dirs |-> [v \in 1..MaxId |-> 0]]
    /\ log = [p \in Procs |-> <<>>]
    /\ boot = [p \in Procs |-> NoBoot]

\* no record's status is being looked at
StatusIdle ==
    /\ contact = NoContact
    /\ now = 0
    /\ res = NoRes

\* no body is being edited
BodyIdle ==
    /\ content = <<>>
    /\ content0 = <<>>
    /\ before = <<>>
    /\ entries = <<>>

\* no record has been created
NoOp == [op |-> "none", arg |-> <<>>]
TagsIdle ==
    /\ tags = <<>>
    /\ lastOp = NoOp

\* no record file is being decoded
CodecIdle ==
    /\ fileBytes = <<>>
    /\ parsed = NotParsed
    /\ parsed0 = NotParsed
    /\ saves = 0

\* no command has run on an empty directory
StoreIdle ==
    /\ store = {}
    /\ nextIndexID = 1
    /\ clock = 0
    /\ lastCmd = [op |-> "none", title |-> "", id |-> 0, err |-> "", before |-> {},
                  next |-> 1, at |-> 0]

AuxIdle == StatusIdle /\ BodyIdle /\ TagsIdle /\ CodecIdle /\ StoreIdle

InitCommon ==
    /\ \E f \in InitRecs :
          /\ recs = [d \in Dirs |-> IF d = "d1" THEN f ELSE EmptyDir]
          /\ \E c \in InitCounters(f) :
                counterFile = [d \in Dirs |-> IF d = "d1" THEN c ELSE NoCounter]
    /\ nextName = [d \in Dirs |-> 1 + Max({n \in Names : recs[d][n].st # "none"})]
    /\ assigned = [d \in Dirs |-> [n \in Names |->
                      IF recs[d][n].st = "ok" THEN recs[d][n].idx ELSE 0]]
    /\ InitProcs
    /\ AuxIdle

\* two commands at once, in one process or in two; each process ends with
\* its command
Init ==
    /\ InitCommon
    /\ stay = [p \in Procs |-> FALSE]
    /\ procOf \in [Workers -> Procs]
    /\ procOf["w1"] = "p1"
    /\ pc = [w \in Workers |-> "idle"]

\* one process at a time: commands run one after the other, each process may
\* exit or crash and the next one starts from the files it left
InitSeq ==
    /\ InitCommon
    /\ stay = [p \in Procs |-> TRUE]
    /\ procOf = [w \in Workers |-> IF w = "w1" THEN "p1" ELSE "p2"]
    /\ pc = [w \in Workers |-> IF w = "w1" THEN "idle" ELSE "off"]

\* the steps of the running commands; no process is started again
Next ==
    \E w \in Workers :
        \/ NewCommand(w)
        \/ SaveNewContact(w)
        \/ FindContacts(w)
        \/ GetIDCounter(w)
        \/ LocRead(w)
        \/ LocScan(w)
        \/ SaveOpen(w)
        \/ SaveWrite(w)
        \/ SaveRename(w)
        \/ NextID(w)
        \/ ScfOpen(w)
        \/ ScfWrite(w)
        \/ PostLoad(w)

\* the same steps, and processes that end, panic or die and are started again
NextSeq ==
    \/ Next
    \/ \E w \in Workers : NextIDNil(w)
    \/ \E p \in Procs : Exit(p) \/ Crash(p)

Spec == Init /\ [][Next]_vars

SpecSeq == InitSeq /\ [][NextSeq]_vars

\* one process whose caller works on two directories, both empty at the start
InitDirs ==
    /\ recs = [d \in Dirs |-> EmptyDir]
    /\ counterFile = [d \in Dirs |-> NoCounter]
    /\ nextName = [d \in Dirs |-> 1]
    /\ assigned = [d \in Dirs |-> [n \in Names |-> 0]]
    /\ InitProcs
    /\ AuxIdle
    /\ stay = [p \in Procs |-> TRUE]
    /\ procOf = [w \in Workers |-> IF w = "w1" THEN "p1" ELSE "p2"]
    /\ pc = [w \in Workers |-> IF w = "w1" THEN "idle" ELSE "off"]

NextDirs ==
    \/ Next
    \/ \E p \in Procs : OtherDir(p)

SpecDirs == InitDirs /\ [][NextDirs]_vars

\* no command of the counter runs and the directories are empty
CoreIdle ==
    /\ recs = [d \in Dirs |-> EmptyDir]
    /\ counterFile = [d \in Dirs |-> NoCounter]
    /\ nextName = [d \in Dirs |-> 1]
    /\ assigned = [d \in Dirs |-> [n \in Names |-> 0]]
    /\ InitProcs
    /\ stay = [p \in Procs |-> FALSE]
    /\ procOf = [w \in Workers |-> IF w = "w1" THEN "p1" ELSE "p2"]
    /\ pc = [w \in Workers |-> "off"]

\* ------------------------------------------------- the status of a record
Styles == {"periodic", "", "ambient", "triggered", "custom"}
RelTypes == {"close", "family", "work", "network", "social", ""}
CustomFreqs == {-1, 0, 15}
\* never contacted, contacted at the start, or stamped ahead of the clock
LastInit == {NilTime, Time(0), Time(3), Time(5)}

\* any record, as its file gives it, at the start of the clock
InitStatus ==
    /\ CoreIdle
    /\ BodyIdle
    /\ TagsIdle
    /\ CodecIdle
    /\ StoreIdle
    /\ now = 0
    /\ res = NoRes
    /\ contact \in [ContactStyle : Styles, RelationshipType : RelTypes,
                    CustomFrequencyDays : CustomFreqs, LastContacted : LastInit,
                    LastInteractionType : {""}]

\* the status of the record is computed as time passes
NextStatus ==
    \/ ComputeStatus
    \/ Tick(MaxNow)

SpecStatus == InitStatus /\ [][NextStatus]_vars

\* ------------------------------------------------- logging an interaction
InteractionTypes == {"email", "call"}
LoggedStyles == {"periodic", "", "ambient"}
LoggedRelTypes == {"work", "social"}
LoggedFreqs == {0, 1}

\* a record checked every day, every 60 days or never, over a few days
InitLogged ==
    /\ CoreIdle
    /\ BodyIdle
    /\ TagsIdle
    /\ CodecIdle
    /\ StoreIdle
    /\ now = 0
    /\ res = NoRes
    /\ contact \in [ContactStyle : LoggedStyles, RelationshipType : LoggedRelTypes,
                    CustomFrequencyDays : LoggedFreqs, LastContacted : LastInit,
                    LastInteractionType : {""}]

NextLogged ==
    \/ ComputeStatus
    \/ \E it \in InteractionTypes : LogInteraction(it)
    \/ Tick(MaxSession)

SpecLogged == InitLogged /\ [][NextLogged]_vars

\* ------------------------------------------------- appending to the log
Chars == {"H", "n", "s", "#", "x"}
Entries == {"a", "b"}
RECURSIVE SeqsUpTo(_, _)
SeqsUpTo(S, k) ==
    IF k = 0 THEN {<<>>}
    ELSE LET shorter == SeqsUpTo(S, k - 1) IN
         shorter \cup {Append(q, x) : q \in shorter, x \in S}

Bodies == SeqsUpTo(Chars, MaxLen)

\* any body, as the record file gives it
InitAppend ==
    /\ CoreIdle
    /\ StatusIdle
    /\ TagsIdle
    /\ CodecIdle
    /\ StoreIdle
    /\ content \in Bodies
    /\ content0 = content
    /\ before = content
    /\ entries = <<>>

NextAppend == \E e \in Entries : AppendEntry(e)

SpecAppend == InitAppend /\ [][NextAppend]_vars

\* ---------------------------------------------------- one record file
\* a title as a file may hold it, plain or between double quotes; titles
\* start with an ordinary character or are empty
TitleValues ==
    LET Titles == {t \in SeqsUpTo({"c", "D"}, MaxTitle) : t = <<>> \/ t[1] = "c"}
    IN Titles \cup {<<"q">> \o t \o <<"q">> : t \in Titles}

\* a record file as an editor or an earlier save left it
InitCodec ==
    /\ CoreIdle
    /\ StatusIdle
    /\ BodyIdle
    /\ TagsIdle
    /\ StoreIdle
    /\ \E v \in TitleValues, b \in SeqsUpTo({"c", "D", "n"}, MaxBody) :
          fileBytes = Delim \o <<"K">> \o v \o <<"n", "G", Stamps[1]>> \o Delim \o b
    /\ parsed = NotParsed
    /\ parsed0 = NotParsed
    /\ saves = 0

NextCodec == ParseContactFile \/ SaveContactFile

SpecCodec == InitCodec /\ [][NextCodec]_vars

\* ------------------------------------------------ one directory's records
StoreTitles == {"", " ", "Bob"}

\* an empty directory, or one record an earlier run or an editor left there,
\* with or without an index, and a counter beyond it
InitStore ==
    /\ CoreIdle
    /\ StatusIdle
    /\ BodyIdle
    /\ TagsIdle
    /\ CodecIdle
    /\ clock = 4
    /\ lastCmd = [op |-> "none", title |-> "", id |-> 0, err |-> "", before |-> {},
                  next |-> 1, at |-> 0]
    /\ \/ store = {} /\ nextIndexID = 1
       \/ \E idx \in {0, 1}, last \in {NilTime, Time(0), Time(3)}, body \in {"", "notes"} :
             /\ store = {[Identifier |-> 1, Title |-> "Ann", FilePath |-> <<1, "ann">>,
                          IndexID |-> idx, State |-> "ok", ContactStyle |-> "periodic",
                          RelationshipType |-> "close", CustomFrequencyDays |-> 1,
                          LastContacted |-> last,
                          LastInteractionType |-> IF last.nil THEN "" ELSE "call",
                          LastBumpDate |-> NilTime, BumpCount |-> 0, UpdatedAt |-> 0,
                          Content |-> body]}
             /\ nextIndexID = idx + 1

NextStore ==
    \/ \E args \in SeqsUpTo(StoreTitles, 1) : CreateRecord(args)
    \/ \E title \in StoreTitles : CreateInForm(title)
    \/ \E i \in 1..MaxClock : BumpCommand(i) \/ BumpContact(i)
    \/ \E i \in 1..MaxClock, name \in StoreTitles, state \in {"", "followup"} :
          UpdateCommand(i, name, state)
    \/ \E i \in 1..MaxClock, title \in StoreTitles, state \in {"ok", "followup"} :
          SaveEditedContact(i, title, state)

SpecStore == InitStore /\ [][NextStore]_vars

\* ------------------------------------------------- the tags of one record
FlagItems == {"contact", " contact", "a", "b", " "}
FormFields == {"contact", "#contact", "##contact", "#a", "b", "#"}

InitTags ==
    /\ CoreIdle
    /\ StatusIdle
    /\ BodyIdle
    /\ TagsIdle
    /\ CodecIdle
    /\ StoreIdle

NextTags ==
    \/ \E items \in SeqsUpTo(FlagItems, MaxArgs) : NewTags(items) \/ UpdateTags(items)
    \/ \E fields \in SeqsUpTo(FormFields, MaxArgs) :
          SaveNewTags(fields) \/ SaveEditedTags(fields)
    \/ \E t \in FlagItems : UpdateAddTag(t) \/ UpdateRemoveTag(t)

SpecTags == InitTags /\ [][NextTags]_vars

\* ------------------------------------------------------------------ claims
\* C1: in a process that created its counter in an empty directory with no counter
\* file, the successful NextID calls return 1, 2, ..., N in that order, with no
\* repeat and no gap
C1_SequentialFromEmpty ==
    \A p \in Procs :
        (boot[p].st = "created" /\ boot[p].empty) =>
            \A i \in 1..Len(log[p]) : log[p][i] = i

C1_ThreeFromEmpty ==
    \E p \in Procs :
        boot[p].st = "created" /\ boot[p].empty /\ log[p] = <<1, 2, 3>>

\* C2: a counter created because the directory had no counter file starts at the
\* greatest index of the parseable records plus one (1 without records); the
\* counter file holds that value before any NextID has returned, and the first
\* NextID returns it
C2_InitFromMax ==
    \A p \in Procs :
        boot[p].st = "created" =>
            /\ counterFile[cfgDir[p]].st = "ok"
            /\ log[p] = <<>> => counterFile[cfgDir[p]].next = Max(boot[p].seen) + 1
            /\ log[p] # <<>> => log[p][1] = Max(boot[p].seen) + 1

C2_FourAfterOneAndThree ==
    \E p \in Procs :
        /\ boot[p].st = "created"
        /\ {1, 3} \subseteq boot[p].seen
        /\ log[p] = <<4>>

\* C3: whatever allocations, deletions and restarts happened in a directory,
\* no value is returned by NextID twice
C3_NeverReused ==
    \A d \in Dirs : \A v \in 1..MaxId : handed[d][v] <= 1

\* a restarted process has just been handed a value, after the record that held
\* an earlier value was deleted
C3_NewValueAfterDelete ==
    \E d \in Dirs, n \in Names, w \in Workers :
        /\ assigned[d][n] > 0
        /\ handed[d][assigned[d][n]] = 1
        /\ recs[d][n].st = "none"
        /\ DirOf(w) = d
        /\ boot[procOf[w]].st = "loaded"
        /\ cmd[w] = "new"
        /\ pc[w] = "scf_open"
        /\ id[w] > assigned[d][n]

\* C4: the successful NextID calls of one process, whichever of its threads made
\* them, received pairwise different values
C4_NoDuplicateInProcess ==
    \A p \in Procs :
        \A i, j \in 1..Len(log[p]) : i # j => log[p][i] # log[p][j]

\* two threads of one process both hold the value their NextID call returned
C4_BothThreadsServed ==
    /\ \E p \in Procs : WorkersOf(p) = Workers
    /\ \A w \in Workers : id[w] > 0 /\ sv[w] = id[w] /\ pc[w] \in {"scf_open", "scf_write"}

\* C5: the counter file is never partial, and it changes only in the rename step
\* of a save, to the complete new value; a crash at any other point leaves the
\* previous value
C5_CounterFileAtomic ==
    /\ [](\A d \in Dirs : counterFile[d].st # "partial")
    /\ [][\A d \in Dirs :
            counterFile'[d] # counterFile[d] =>
                \E w \in Workers :
                    /\ pc[w] = "sv_rename"
                    /\ SaveDir(w) = d
                    /\ counterFile'[d] = CounterVal(SaveData(w))]_vars

\* the process died after it wrote the temporary file and before the rename
C5_CrashBeforeRename ==
    \E d \in Dirs :
        /\ tmpFile[d].st = "ok"
        /\ counterFile[d].st = "ok"
        /\ tmpFile[d].next = counterFile[d].next + 1
        /\ \A w \in Workers : pc[w] \in {"idle", "off"}
        /\ \A p \in Procs : once[p] = "new"

\* C6: a process allocates from the value it read when it started and never
\* reads the counter file again: its k-th successful NextID returns that value
\* plus k - 1, whatever other processes persisted meanwhile
C6_CounterIsPrivate ==
    \A p \in Procs :
        boot[p].st \in {"loaded", "created"} =>
            \A i \in 1..Len(log[p]) : log[p][i] = boot[p].start + i - 1

\* two processes started from the same value, both were handed it, and two
\* records hold it
C6_DuplicateIndex ==
    \E v \in 1..MaxId, d \in Dirs :
        /\ \A p \in Procs : /\ cfgDir[p] = d
                            /\ boot[p].start = v
                            /\ log[p] = <<v>>
        /\ \E n, m \in Names : n # m /\ recs[d][n] = Rec(v) /\ recs[d][m] = Rec(v)

\* C7: a record file that once held a non-zero index holds that index whenever it
\* is a complete file, whatever commands ran since
C7_IndexStable ==
    \A d \in Dirs : \A n \in Names :
        (recs[d][n].st = "ok" /\ assigned[d][n] > 0) => recs[d][n].idx = assigned[d][n]

\* a record keeps the index the counter gave it after another record was
\* deleted and a later command loaded the directory
C7_KeptAfterOtherCommands ==
    \E w \in Workers, n, m \in Names :
        LET d == DirOf(w) IN
        /\ n # m
        /\ recs[d][n].st = "ok"
        /\ recs[d][n].idx > 0
        /\ handed[d][recs[d][n].idx] = 1
        /\ assigned[d][m] > 0
        /\ recs[d][m].st = "none"
        /\ pc[w] = "post"
        /\ log[procOf[w]] = <<>>
        /\ loaded[w][n] = recs[d][n].idx

\* C8: while a save of a record is in progress and another command may read the
\* directory, the record's file is no partial file
C8_SaveIsAtomic ==
    \A w, r \in Workers :
        (w # r /\ pc[w] = "scf_write" /\ pc[r] = "idle") =>
            recs[DirOf(w)][cur[w]].st # "partial"

\* C9: when save() returns an error, the temporary file does not exist
C9_TempRemovedOnFailure ==
    [][\A w \in Workers :
          (InSave(w) /\ pc'[w] \in {"idle", "off"} /\ once'[procOf[w]] = "done") =>
              tmpFile'[SaveDir(w)].st = "none"]_vars

\* C10: when the save of a create (apeople new, the TUI form) succeeds, the
\* record written carries a non-zero index
C10_CreateCarriesIndex ==
    [][\A w \in Workers :
          (/\ cmd[w] \in {"new", "tuinew"}
           /\ pc[w] = "scf_write"
           /\ recs'[DirOf(w)][cur[w]].st = "ok") =>
              recs'[DirOf(w)][cur[w]].idx > 0]_vars

C12_NotJudged ==
    (res.set /\ (~(contact.ContactStyle \in {"periodic", ""})
                 \/ GetFrequencyDays(contact) = 0)) =>
        (~res.overdue /\ ~res.attention /\ ~res.fresh /\ res.OverdueStatus = "")

\* an ambient network record that was never contacted has no status
C12_AmbientNeverContacted ==
    /\ res.set
    /\ contact.ContactStyle = "ambient"
    /\ GetFrequencyDays(contact) = 90
    /\ contact.LastContacted.nil
    /\ ~res.overdue /\ ~res.attention /\ ~res.fresh

\* C13: a record with periodic or unset style and positive frequency that was
\* never contacted has days since contact -1, is overdue, needs attention and
\* is not fresh.
C13_NeverContacted ==
    (res.set /\ contact.ContactStyle \in {"periodic", ""}
             /\ GetFrequencyDays(contact) > 0 /\ contact.LastContacted.nil) =>
        (res.DaysSince = -1 /\ res.overdue /\ res.attention /\ ~res.fresh)

\* a work record without a style, never contacted, some days on
C13_WorkNeverContacted ==
    /\ res.set
    /\ contact.ContactStyle = ""
    /\ contact.RelationshipType = "work"
    /\ contact.CustomFrequencyDays = 0
    /\ contact.LastContacted.nil
    /\ now > 0
    /\ res.DaysSince = -1 /\ res.overdue /\ res.attention /\ ~res.fresh

\* C14: logging an interaction on a periodic record with positive frequency
\* sets the last-contact timestamp to now and the last interaction type, and
\* right after it the record has days since contact 0, is not overdue and is
\* fresh, whatever its status was before.
C14_LogMakesFresh ==
    [][\A it \in InteractionTypes :
          (LogInteraction(it) /\ contact.ContactStyle = "periodic"
                              /\ GetFrequencyDays(contact) > 0) =>
             /\ contact'.LastContacted = Time(now)
             /\ contact'.LastInteractionType = it
             /\ DaysSinceContact(contact', now') = 0
             /\ ~IsOverdue(contact', now')
             /\ IsWithinThreshold(contact', now')]_vars

\* a daily record two days late (its status before the log) has just been logged
C14_LoggedWhenOverdue ==
    /\ res.set /\ res.overdue /\ res.DaysSince = 2
    /\ contact.ContactStyle = "periodic"
    /\ contact.LastContacted = Time(now)
    /\ contact.LastInteractionType = "call"
    /\ Status(contact, now).DaysSince = 0
    /\ ~Status(contact, now).overdue
    /\ Status(contact, now).fresh

\* ---- what an append did, read off the bodies before and after it
Appended == entries # <<>>
Latest == entries[Len(entries)]
Contains(b) == \E i \in 1..Len(b) : b[i] = "H"
FirstHeader(b) == CHOOSE i \in 1..Len(b) : b[i] = "H" /\ \A j \in 1..(i - 1) : b[j] # "H"
\* the heading at place i is a whole line of b
IsHeadingLine(b, i) ==
    /\ b[i] = "H"
    /\ i = 1 \/ b[i - 1] = "n"
    /\ i = Len(b) \/ b[i + 1] = "n"
HeadingLines(b) == {i \in 1..Len(b) : IsHeadingLine(b, i)}
\* b with the line of entry e put in after its first p characters
Inserted(b, p, e) == SubSeq(b, 1, p) \o <<e, "n">> \o SubSeq(b, p + 1, Len(b))
\* b without its trailing characters of the set W
Stripped(b, W) ==
    LET k == CHOOSE n \in 0..Len(b) :
                 /\ \A i \in (n + 1)..Len(b) : b[i] \in W
                 /\ n = 0 \/ b[n] \notin W IN
    SubSeq(b, 1, k)
\* text t, one blank line, the heading, one blank line, the line of entry e
Section(t, e) ==
    IF t = <<>> THEN <<"n", "H", "n", "n", e, "n">>
    ELSE t \o <<"n", "n", "H", "n", "n", e, "n">>
EndsWith(b, t) == Len(b) >= Len(t) /\ SubSeq(b, Len(b) - Len(t) + 1, Len(b)) = t

\* C15 (as stated): when the body has the heading as a line, the new entry is
\* the line right after the heading line, and the blank lines that followed the
\* heading come after the new entry.
C15_BlankLinesAfterEntry ==
    (Appended /\ Contains(before)) =>
        LET h == FirstHeader(before) IN
        (IsHeadingLine(before, h) /\ h < Len(before)) =>
            content = Inserted(before, h + 1, Latest)

\* C15 (amended): when the body contains the heading, the new entry and a
\* newline are inserted after the first occurrence of the heading and all the
\* newlines that immediately follow it: the blank lines stay between the
\* heading and the new entry, which precedes everything that followed them.
C15_EntryAfterBlankLines ==
    (Appended /\ Contains(before)) =>
        LET h == FirstHeader(before) IN
        \E p \in h..Len(before) :
            /\ \A i \in (h + 1)..p : before[i] = "n"
            /\ p = Len(before) \/ before[p + 1] # "n"
            /\ content = Inserted(before, p, Latest)

\* a heading, a blank line and an older line: the entry goes after the blank line
C15_BlankLineKeptAbove ==
    /\ Appended
    /\ before = <<"H", "n", "n", "x">>
    /\ content = <<"H", "n", "n", Latest, "n", "x">>

\* C16 (as stated): when the body does not contain the heading, the result is
\* the body without its trailing whitespace, one blank line, the heading, one
\* blank line and the new entry on its own line.
C16_TrimsWhitespace ==
    (Appended /\ ~Contains(before)) =>
        content = Section(Stripped(before, {"n", "s"}), Latest)

\* C16 (amended): when the body does not contain the heading, the result is
\* the body without its trailing newline characters (other trailing
\* whitespace is kept), one blank line, the heading, one blank line and the
\* new entry on its own line.
C16_TrimsNewlines ==
    (Appended /\ ~Contains(before)) =>
        content = Section(Stripped(before, {"n"}), Latest)

\* a body that ends in a space and two newlines keeps the space
C16_SpaceKept ==
    /\ Appended
    /\ before = <<"x", "s", "n", "n">>
    /\ content = <<"x", "s", "n", "n", "H", "n", "n", Latest, "n">>

\* C17: two appends to a body without an interaction-log section give a body
\* with exactly one heading, the second entry on the line before the first,
\* both under the heading; and appends to such a body never make a second
\* heading.
C17_OneHeadingTwoEntries ==
    (Appended /\ HeadingLines(content0) = {}) =>
        /\ Cardinality(HeadingLines(content)) = 1
        /\ Len(entries) = 2 =>
              \E h \in HeadingLines(content) : \E i \in (h + 2)..(Len(content) - 3) :
                  /\ content[i - 1] = "n"
                  /\ SubSeq(content, i, i + 3) = <<entries[2], "n", entries[1], "n">>

\* C18: the section is found only when a whole line of the body is the
\* heading: without such a line the section is created at the end, and with
\* one the entry goes under the first such line, not after other text that
\* contains the heading string.
C18_WholeLineOnly ==
    Appended =>
        IF HeadingLines(before) = {}
        THEN EndsWith(content, <<"n", "H", "n", "n", Latest, "n">>)
        ELSE LET h == CHOOSE i \in HeadingLines(before) :
                          \A j \in HeadingLines(before) : i <= j IN
             \E p \in h..Len(before) :
                 /\ \A i \in (h + 1)..p : before[i] = "n"
                 /\ content = Inserted(before, p, Latest)

\* C19: when the heading is present the result is the body with the line of
\* the new entry put in at one place: taking that line out gives the body back.
C19_PureSplice ==
    (Appended /\ Contains(before)) =>
        \E p \in 0..Len(before) : content = Inserted(before, p, Latest)

\* the second entry goes into the section the first append made, above the first
C19_SecondEntrySpliced ==
    /\ content0 = <<"x">>
    /\ entries = <<"a", "b">>
    /\ before = <<"x", "n", "n", "H", "n", "n", "a", "n">>
    /\ content = <<"x", "n", "n", "H", "n", "n", "b", "n", "a", "n">>

\* C20: after any sequence of create, update (--tags, --add-tag,
\* --remove-tag) and TUI edit operations the saved tag list of the record
\* holds the tag `contact` exactly once: no operation removes or duplicates it.
C20_OneContactTag ==
    lastOp.op # "none" =>
        Cardinality({i \in 1..Len(tags) : tags[i] = "contact"}) = 1

\* asked to remove `contact` from a record with another tag, update left it
C20_ContactNotRemoved ==
    /\ lastOp = [op |-> "remove-tag", arg |-> <<" contact">>]
    /\ tags = <<"contact", "a">>

\* C30: a record that has a last-contact timestamp, past or future, never has
\* days since contact -1, and so is never both overdue and in need of attention.
C30_SentinelOnlyForNever ==
    (res.set /\ ~contact.LastContacted.nil) =>
        (res.DaysSince # -1 /\ ~(res.overdue /\ res.attention))

\* C26: when AssignIndexIDs has returned without error, every record of the
\* loaded set has a non-zero index, the records that had none hold pairwise
\* different values the counter handed out, and each record's file holds its value.
C26_AllAssigned ==
    \A w \in Workers :
        pc[w] = "post" =>
            /\ \A n \in Names : loaded[w][n] # 0
            /\ \A n \in Names :
                  loaded[w][n] > 0 => recs[DirOf(w)][n] = Rec(loaded[w][n])
            /\ \A n, m \in Names :
                  (n # m /\ loaded[w][n] > 0 /\ loaded[w][m] > 0) =>
                      loaded[w][n] # loaded[w][m]
            /\ \A i \in 1..Len(log[procOf[w]]) :
                  handed[DirOf(w)][log[procOf[w]][i]] = 1

\* two records without an index were loaded, and got 1 and 2 from a new counter
C26_TwoAssigned ==
    \E w \in Workers :
        /\ pc[w] = "post"
        /\ boot[procOf[w]].st = "created"
        /\ log[procOf[w]] = <<1, 2>>
        /\ loaded[w][1] = 1 /\ loaded[w][2] = 2
        /\ recs[DirOf(w)][1] = Rec(1) /\ recs[DirOf(w)][2] = Rec(2)

\* C27: a create or an index assignment writes an index into a record file
\* only when the counter file holds a greater next value, and NextID never hands out a value that a
\* record file holds, whatever crashes came between allocation and record save.
C27_CounterAheadOfRecords ==
    [][\A w \in Workers :
          /\ (pc[w] = "scf_write" /\ cmd[w] \in {"new", "load"}
                                  /\ recs'[DirOf(w)][cur[w]].st = "ok"
                                  /\ recs'[DirOf(w)][cur[w]].idx > 0) =>
                 /\ counterFile[DirOf(w)].st = "ok"
                 /\ counterFile[DirOf(w)].next > recs'[DirOf(w)][cur[w]].idx
          /\ (pc[w] = "nid" /\ pc'[w] = "sv_open") =>
                 \A n \in Names : recs[DirOf(w)][n] # Rec(id'[w])]_vars

\* value 1 was handed out and never reached a record file; a later process
\* has written 2 into a record
C27_GapAfterCrash ==
    /\ handed["d1"][1] = 1
    /\ \A n \in Names : assigned["d1"][n] # 1
    /\ \E n \in Names : recs["d1"][n] = Rec(2) /\ assigned["d1"][n] = 2
    /\ \E p \in Procs : boot[p].st = "loaded" /\ log[p] = <<2>>

\* C28: GetIDCounter never returns a nil counter with a nil error
C28_NeverNilCounter ==
    \A w \in Workers : ctr[w] # "nil"

\* C29: when NextID fails because save() failed, it returns 0, the in-memory
\* next value is the value the call had taken and equals the value in the
\* counter file, so the next successful NextID returns that value.
C29_FailureRestores ==
    [][\A w \in Workers :
          (InSave(w) /\ sctx[w] = "next" /\ pc'[w] \in {"idle", "off"}
                     /\ once'[procOf[w]] = "done") =>
              /\ id'[w] = 0
              /\ gc'[procOf[w]].next = id[w]
              /\ counterFile'[gc[procOf[w]].dir] = CounterVal(id[w])]_vars

\* a NextID has just failed in its write (the temporary file is still there)
\* after one that returned 1: memory and counter file both hold 2
C29_FailedAfterOne ==
    \E w \in Workers :
        /\ pc[w] = "idle"
        /\ tmpFile[DirOf(w)].st = "partial"
        /\ once[procOf[w]] = "done"
        /\ log[procOf[w]] = <<1>>
        /\ gc[procOf[w]].next = 2
        /\ counterFile[DirOf(w)] = CounterVal(2)

\* C24: the counter GetIDCounter returns belongs to the directory it was
\* called with, also after an earlier call with another directory
C24_CounterOfDirectory ==
    [][\A w \in Workers :
          (ctr[w] # "ptr" /\ ctr'[w] = "ptr") => gc'[procOf[w]].dir = DirOf(w)]_vars

\* C21: a record that came from parsing a file, saved and parsed again, has
\* the same title, tags and body (the modification timestamp aside)
C21_RoundTrip ==
    (saves > 0 /\ parsed.st # "none") =>
        /\ parsed.st = "ok"
        /\ parsed.Title = parsed0.Title
        /\ parsed.Tags = parsed0.Tags
        /\ parsed.Content = parsed0.Content

\* C22 as stated: a bump sets the last-bump date to now and adds 1 to the
\* bump count, and leaves the last contact, the last interaction type, the
\* state, the body, the id and the index as they were, and with them the
\* days since contact and the overdue status
C22_BumpKeepsIndex ==
    lastCmd.op \in {"bump", "tui-bump"} =>
        LET b == FindContactByID(lastCmd.before, lastCmd.id)
            a == FindContactByID(store, lastCmd.id)
            t == lastCmd.at
        IN /\ Cardinality({r \in store : r.Identifier = lastCmd.id}) = 1
           /\ a.LastBumpDate = Time(t)
           /\ a.BumpCount = b.BumpCount + 1
           /\ a.LastContacted = b.LastContacted
           /\ a.LastInteractionType = b.LastInteractionType
           /\ a.State = b.State
           /\ a.Content = b.Content
           /\ a.IndexID = b.IndexID
           /\ DaysSinceContact(a, t) = DaysSinceContact(b, t)
           /\ IsOverdue(a, t) = IsOverdue(b, t)

\* C22: a bump sets the last-bump date to now and adds 1 to the bump count,
\* and leaves the last contact, the last interaction type, the state, the
\* body and the id as they were, and the index too if the record had one (a
\* record with index 0 gets its first index from the load of the command);
\* the days since contact and the overdue status are as before
C22_BumpFrame ==
    lastCmd.op \in {"bump", "tui-bump"} =>
        LET b == FindContactByID(lastCmd.before, lastCmd.id)
            a == FindContactByID(store, lastCmd.id)
            t == lastCmd.at
        IN /\ Cardinality({r \in store : r.Identifier = lastCmd.id}) = 1
           /\ a.LastBumpDate = Time(t)
           /\ a.BumpCount = b.BumpCount + 1
           /\ a.LastContacted = b.LastContacted
           /\ a.LastInteractionType = b.LastInteractionType
           /\ a.State = b.State
           /\ a.Content = b.Content
           /\ b.IndexID # 0 => a.IndexID = b.IndexID
           /\ DaysSinceContact(a, t) = DaysSinceContact(b, t)
           /\ IsOverdue(a, t) = IsOverdue(b, t)

\* an overdue record with an index was bumped for the second time
C22_BumpedTwice ==
    /\ lastCmd.op = "bump"
    /\ \E a \in store, b \in lastCmd.before :
          /\ a.Identifier = lastCmd.id
          /\ b.Identifier = lastCmd.id
          /\ b.IndexID = 1
          /\ b.BumpCount = 1
          /\ a.BumpCount = 2
          /\ ~a.LastContacted.nil
          /\ IsOverdue(a, lastCmd.at)

\* C23: a create with an empty title ends in an error, writes no record file
\* and takes no index from the counter
C23_EmptyTitleRejected ==
    (lastCmd.op \in {"new", "tui-new"} /\ lastCmd.title = "") =>
        /\ lastCmd.err # ""
        /\ store = lastCmd.before
        /\ nextIndexID = lastCmd.next

\* C25 as stated: an update leaves the id, the index and the path of the
\* record as they were, and the directory holds no second file for it
C25_UpdateKeepsIndex ==
    lastCmd.op \in {"update", "tui-edit"} =>
        LET b == FindContactByID(lastCmd.before, lastCmd.id)
            a == FindContactByID(store, lastCmd.id)
        IN /\ Cardinality({r \in store : r.Identifier = lastCmd.id}) = 1
           /\ Cardinality(store) = Cardinality(lastCmd.before)
           /\ {r.FilePath : r \in store} = {r.FilePath : r \in lastCmd.before}
           /\ a.FilePath = b.FilePath
           /\ a.IndexID = b.IndexID

\* C25: an update leaves the id and the path of the record as they were, and
\* the index too if the record had one; the directory holds the same files
\* as before, so no second file for the record
C25_UpdateKeepsPath ==
    lastCmd.op \in {"update", "tui-edit"} =>
        LET b == FindContactByID(lastCmd.before, lastCmd.id)
            a == FindContactByID(store, lastCmd.id)
        IN /\ Cardinality({r \in store : r.Identifier = lastCmd.id}) = 1
           /\ Cardinality(store) = Cardinality(lastCmd.before)
           /\ {r.FilePath : r \in store} = {r.FilePath : r \in lastCmd.before}
           /\ a.FilePath = b.FilePath
           /\ b.IndexID # 0 => a.IndexID = b.IndexID

\* the record titled Ann was renamed Bob and is still in its first file
C25_RenamedInPlace ==
    /\ lastCmd.op = "update"
    /\ \E a \in store, b \in lastCmd.before :
          /\ a.Identifier = 1
          /\ b.Identifier = 1
          /\ b.Title = "Ann"
          /\ a.Title = "Bob"
          /\ a.FilePath = <<1, "ann">>
          /\ a.IndexID = 1

====
